---- MODULE Spec2Model ----
(***************************************************************************)
(* Model of the fiducial map engine of fiducial_slam2 (src/map.cpp):       *)
(* Map::update, Map::autoInit, Map::updateMap, Map::updatePose,            *)
(* Fiducial::update, Map::saveMap and Map::loadMap.                        *)
(*                                                                         *)
(* Numbers.  A double is modelled as an exact rational <<n, d>> with       *)
(* d > 0 in lowest terms, extended with the IEEE special values the code   *)
(* can produce: <<1, 0>> is +inf, <<-1, 0>> is -inf and <<0, 0>> is NaN.   *)
(* Rounding of double arithmetic is not modelled.  Variances (the variance  *)
(* of a landmark, objectError, the floors) are held in units of 1e-4, all  *)
(* other quantities in their own unit.                                     *)
(*                                                                         *)
(* Poses.  A tf2::Transform is modelled on the subgroup of rigid           *)
(* transforms made of a rotation about the Z axis (field rot) and          *)
(* a translation along the Z axis (field z, metres).  On this subgroup     *)
(* composition adds both fields, inversion negates them, the squared       *)
(* length of the origin is z*z and slerp is the linear interpolation of    *)
(* the angle.  Angles are held in units of pi radians (M_PI is 1).          *)
(***************************************************************************)
EXTENDS Integers, Sequences, FiniteSets, TLC

VARIABLES
    frameNum,           \* Map::frameNum
    isInitializingMap,  \* Map::isInitializingMap
    originFid,          \* the function-static originFid of Map::autoInit
    fiducials,          \* Map::fiducials
    mapFile,            \* the file at Map::filename
    obsIn,              \* the argument obs of the current call of Map::update
    pc,                 \* the position of the frame callback
    events,             \* history: what the current frame did, in order
    broadcast,          \* history: the transforms the current frame sent
    hist,               \* history: facts about the run so far
    reloaded            \* the collection of a second Map that loaded mapFile

vars == <<frameNum, isInitializingMap, originFid, fiducials, mapFile,
          obsIn, pc, events, broadcast, hist, reloaded>>

----------------------------------------------------------------------------
(* Extended rational arithmetic (the model of double).                     *)

Abs(x) == IF x < 0 THEN -x ELSE x

Sgn(x) == IF x < 0 THEN -1 ELSE IF x > 0 THEN 1 ELSE 0

RECURSIVE GCD(_, _)
GCD(a, b) == IF b = 0 THEN a ELSE GCD(b, a % b)

Norm(n, d) ==
    IF d = 0 THEN <<Sgn(n), 0>>
    ELSE LET g == GCD(Abs(n), Abs(d))
             s == IF d < 0 THEN -1 ELSE 1
         IN  <<(s * n) \div g, (s * d) \div g>>

NaN == <<0, 0>>

Inf == <<1, 0>>

Zero == <<0, 1>>

One == <<1, 1>>

R(n) == <<n, 1>>

IsNaN(a) == a = NaN

IsInf(a) == a[2] = 0 /\ a[1] # 0

IsFinite(a) == a[2] # 0

RNeg(a) == <<-a[1], a[2]>>

RAdd(a, b) ==
    IF IsNaN(a) \/ IsNaN(b) THEN NaN
    ELSE IF IsInf(a) THEN (IF IsInf(b) /\ b # a THEN NaN ELSE a)
    ELSE IF IsInf(b) THEN b
    ELSE LET g == GCD(a[2], b[2])
         IN  Norm(a[1] * (b[2] \div g) + b[1] * (a[2] \div g), (a[2] \div g) * b[2])

RSub(a, b) == RAdd(a, RNeg(b))

RMul(a, b) ==
    IF IsNaN(a) \/ IsNaN(b) THEN NaN
    ELSE IF IsInf(a) \/ IsInf(b)
         THEN (IF a[1] = 0 \/ b[1] = 0 THEN NaN ELSE <<Sgn(a[1]) * Sgn(b[1]), 0>>)
    ELSE LET g1 == GCD(Abs(a[1]), b[2])
             g2 == GCD(Abs(b[1]), a[2])
         IN  IF a[1] = 0 \/ b[1] = 0 THEN Zero
             ELSE Norm((a[1] \div g1) * (b[1] \div g2), (a[2] \div g2) * (b[2] \div g1))

RDiv(a, b) ==
    IF IsNaN(a) \/ IsNaN(b) THEN NaN
    ELSE IF IsInf(b) THEN (IF IsInf(a) THEN NaN ELSE Zero)
    ELSE IF b[1] = 0 THEN (IF a[1] = 0 THEN NaN ELSE <<Sgn(a[1]), 0>>)
    ELSE IF IsInf(a) THEN <<Sgn(a[1]) * Sgn(b[1]), 0>>
    ELSE RMul(a, <<Sgn(b[1]) * b[2], Abs(b[1])>>)

\* a < b on doubles: false when either side is NaN
RLess(a, b) ==
    /\ ~IsNaN(a)
    /\ ~IsNaN(b)
    /\ LET g == IF IsFinite(a) /\ IsFinite(b) THEN GCD(a[2], b[2]) ELSE 1
       IN  a[1] * (b[2] \div g) < b[1] * (a[2] \div g)

\* a == b on doubles: false when either side is NaN
REq(a, b) == ~IsNaN(a) /\ ~IsNaN(b) /\ a = b

\* std::max(a, b): (a < b) ? b : a
RMax(a, b) == IF RLess(a, b) THEN b ELSE a

----------------------------------------------------------------------------
(* Fusion primitives.                                                      *)

\* the floor of updateVarianceAlexey, 1e-6
VarianceFloor == <<1, 100>>

\* variant of updateVarianceAlexey that adds the variances instead of their
\* reciprocals
updateVarianceAlexeySum(var1, var2) ==
    RMax(RAdd(var1, var2), VarianceFloor)

updateVarianceAlexey(var1, var2) ==
    RMax(RDiv(One, RAdd(RDiv(One, var1), RDiv(One, var2))), VarianceFloor)

\* the "if (1)" branch is the only one the build executes
updateVarianceDavid(newMean, mean1, var1, mean2, var2) ==
    updateVarianceAlexey(var1, var2)

\* q1.slerp(q2, t).normalize() for two rotations about the same axis
\* (tf2 returns *this when the angle between the two is zero, whatever t is)
Slerp(q1, q2, t) ==
    IF q1 = q2 THEN q1
    ELSE RAdd(q1, RMul(t, RSub(q2, q1)))

updateTransform(t1, var1, t2, var2) ==
    [z   |-> RDiv(RAdd(RMul(var1, t2.z), RMul(var2, t1.z)), RAdd(var1, var2)),
     rot |-> Slerp(t1.rot, t2.rot, RDiv(var1, RAdd(var1, var2)))]

\* tf2::Transform product and inverse on the modelled subgroup
Compose(a, b) == [z |-> RAdd(a.z, b.z), rot |-> RAdd(a.rot, b.rot)]

Inverse(a) == [z |-> RNeg(a.z), rot |-> RNeg(a.rot)]

length2(p) == RMul(p.z, p.z)

----------------------------------------------------------------------------
(* Observation and Fiducial.                                               *)

\* M_PI, in the angle unit of the model
M_PI == One

deg2rad(deg) == RDiv(RMul(deg, M_PI), R(180))

rad2deg(rad) == RDiv(RMul(rad, R(180)), M_PI)

\* Observation::Observation: q is the detected rotation about Z, tvec the
\* detected translation along Z
Observation(fid, q, tvec, ierr, oerr) ==
    LET T_arucoRos == [z |-> Zero, rot |-> RDiv(M_PI, R(2))]
        T          == [z |-> tvec, rot |-> q]
        T_fidCam   == Compose(T, T_arucoRos)
    IN  [fid         |-> fid,
         imageError  |-> ierr,
         objectError |-> oerr,
         T_fidCam    |-> T_fidCam,
         T_camFid    |-> Inverse(T_fidCam)]

\* Fiducial::Fiducial(int id, const tf2::Transform &pose, double variance)
Fiducial(id, pose, variance) ==
    [id |-> id, pose |-> pose, variance |-> variance, numObs |-> 0, links |-> {}]

\* Fiducial::Fiducial(int id, const tf2::Quaternion &q, const tf2::Vector3 &tvec,
\*                    double variance)
FiducialQT(id, q, tvec, variance) ==
    [id |-> id, pose |-> [z |-> tvec, rot |-> q], variance |-> variance,
     numObs |-> 0, links |-> {}]

\* Fiducial::update
Fiducial_update(f, newPose, newVariance) ==
    LET mean1   == f.pose.z
        pose2   == updateTransform(f.pose, f.variance, newPose, newVariance)
        mean2   == newPose.z
        newMean == pose2.z
        v       == updateVarianceDavid(newMean, mean1, f.variance, mean2, newVariance)
    IN  [f EXCEPT !.pose = pose2, !.numObs = f.numObs + 1, !.variance = v]

\* the std::map<int, Fiducial> fiducials is a function from the keys present
NoFiducials == [k \in {} |-> 0]

Has(fids, k) == k \in DOMAIN fids

Put(fids, k, f) == [x \in DOMAIN fids \cup {k} |-> IF x = k THEN f ELSE fids[x]]

\* fiducials[k]: operator[] default-constructs a missing entry, dflt is the
\* value of that default-constructed Fiducial
Get(fids, k, dflt) == IF Has(fids, k) THEN fids[k] ELSE dflt

\* obs[i] of the 0-based vector
At(obs, i) == obs[i + 1]

----------------------------------------------------------------------------
(* Persistence.  A file is [exists, lines]; a line holds the values its    *)
(* text denotes: nfixed is the number of leading fixed fields (id, tx, ty, *)
(* tz, rx, ry, rz, variance, numObs) that sscanf converts, links the ids   *)
(* of the trailing list in the order written.  tx, ty, rx and ry are 0 on  *)
(* the modelled subgroup and are left out of the line.                     *)

NoFile == [exists |-> FALSE, lines |-> <<>>]

\* the number of fixed fields of the format of saveMap and loadMap
NumFixedFields == 9

\* the decimals printf keeps for "%lf"
LfDecimals == 6

RECURSIVE Pow10(_)
Pow10(k) == IF k = 0 THEN 1 ELSE 10 * Pow10(k - 1)

\* the next k decimal digits of r/d (r < d), as <<digits read as a number, remainder>>
RECURSIVE DecimalDigits(_, _, _, _)
DecimalDigits(r, d, k, acc) ==
    IF k = 0 THEN <<acc, r>>
    ELSE DecimalDigits((r * 10) % d, d, k - 1, acc * 10 + ((r * 10) \div d))

\* x rounded to k decimals; inf and NaN are kept
RoundDecimals(x, k) ==
    IF ~IsFinite(x) THEN x
    ELSE LET n      == Abs(x[1])
             d      == x[2]
             digits == DecimalDigits(n % d, d, k, n \div d)
             scaled == IF 2 * digits[2] >= d THEN digits[1] + 1 ELSE digits[1]
         IN  Norm(Sgn(x[1]) * scaled, Pow10(k))

\* the value of the text that fprintf("%lf") writes for x and sscanf("%lf") reads
\* back: x rounded to LfDecimals decimals; "inf" and "nan" read back as themselves
PrintLf(x) == RoundDecimals(x, LfDecimals)

\* the same for a variance: held in units of 1e-4, its decimals beyond the
\* fourth are the decimals of the held number
PrintLfVariance(v) == RoundDecimals(v, LfDecimals - 4)

\* the keys of a std::map in iteration order
RECURSIVE SortedSeq(_)
SortedSeq(S) ==
    IF S = {} THEN <<>>
    ELSE LET m == CHOOSE x \in S : \A y \in S : x <= y
         IN  <<m>> \o SortedSeq(S \ {m})

\* one line of saveMap
SaveLine(f) ==
    [nfixed |-> NumFixedFields,
     id     |-> f.id,
     tz     |-> PrintLf(f.pose.z),
     rz     |-> PrintLf(rad2deg(f.pose.rot)),
     var    |-> PrintLfVariance(f.variance),
     numObs |-> f.numObs,
     links  |-> SortedSeq(f.links)]

\* Map::saveMap: the file written for the landmark collection fids
saveMap(fids) ==
    LET keys == SortedSeq(DOMAIN fids)
    IN  [exists |-> TRUE, lines |-> [i \in 1..Len(keys) |-> SaveLine(fids[keys[i]])]]

\* the return value of the sscanf of loadMap: the fixed fields converted, plus
\* one for "%[^\t\n]" when all of them were and the rest of the line is not blank
SscanfCount(line) ==
    IF line.nfixed = NumFixedFields /\ Len(line.links) > 0
    THEN NumFixedFields + 1
    ELSE line.nfixed

\* the Fiducial that loadMap builds from an accepted line
LoadLine(line) ==
    LET f == FiducialQT(line.id, deg2rad(line.rz), line.tz, line.var)
    IN  [f EXCEPT !.numObs = line.numObs,
                  !.links = {line.links[i] : i \in 1..Len(line.links)}]

RECURSIVE loadMapLoop(_, _, _)
loadMapLoop(fids, lines, i) ==
    IF i > Len(lines) THEN fids
    ELSE IF SscanfCount(lines[i]) = NumFixedFields + 1
         THEN loadMapLoop(Put(fids, lines[i].id, LoadLine(lines[i])), lines, i + 1)
         ELSE loadMapLoop(fids, lines, i + 1)

\* Map::loadMap into the collection fids
loadMap(fids, file) ==
    IF ~file.exists THEN fids ELSE loadMapLoop(fids, file.lines, 1)

----------------------------------------------------------------------------
(* The map engine.                                                         *)

\* the frame count after which autoInit ends the bootstrap (frameNum > 10)
InitFrames == 10

\* the floor on landmark1's variance in updateMap, written 10e-5 in the code
LinkVarianceFloor == <<1, 1>>

RECURSIVE findClosestObsLoop(_, _, _, _)
findClosestObsLoop(obs, i, smallestDist, closestIdx) ==
    IF i >= Len(obs) THEN closestIdx
    ELSE LET o == At(obs, 0)
             d == length2(o.T_camFid)
         IN  IF RLess(smallestDist, Zero) \/ RLess(d, smallestDist)
             THEN findClosestObsLoop(obs, i + 1, d, i)
             ELSE findClosestObsLoop(obs, i + 1, smallestDist, closestIdx)

\* findClosestObs: an index into obs, or -1
findClosestObs(obs) == findClosestObsLoop(obs, 0, R(-1), -1)

\* the first part of autoInit: insert the origin, or fuse it.  origin is the
\* function-static originFid; dflt is the value of a default-constructed Fiducial
autoInitOrigin(fids, origin, obs, dflt) ==
    IF Cardinality(DOMAIN fids) = 0
    THEN LET idx == findClosestObs(obs)
             o   == At(obs, idx)
         IN  [fiducials |-> Put(fids, o.fid, Fiducial(o.fid, o.T_fidCam, o.objectError)),
              originFid |-> idx,
              events    |-> <<[kind |-> "init", idx |-> idx, fid |-> o.fid]>>]
    ELSE IF Len(obs) > 0 /\ At(obs, 0).fid = origin
         THEN LET o == At(obs, 0)
                  f == Get(fids, origin, dflt)
              IN  [fiducials |-> Put(fids, origin,
                                     Fiducial_update(f, o.T_fidCam, o.objectError)),
                   originFid |-> origin,
                   events    |-> <<[kind |-> "fuse", site |-> "autoInit",
                                    fid2 |-> origin, created |-> ~Has(fids, origin),
                                    varA |-> f.variance, varB |-> o.objectError,
                                    numObsBefore |-> f.numObs]>>]
         ELSE [fiducials |-> fids, originFid |-> origin, events |-> <<>>]

\* variant of autoInitAnchor that ends the bootstrap one frame early
\* (frameNum >= 10 for frameNum > 10)
autoInitAnchorEarly(a, frame, obs, dflt) ==
    IF frame >= InitFrames
    THEN [fiducials |-> IF Len(obs) > 0 /\ At(obs, 0).fid = a.originFid
                        THEN Put(a.fiducials, a.originFid,
                                 [Get(a.fiducials, a.originFid, dflt)
                                     EXCEPT !.variance = Zero])
                        ELSE a.fiducials,
          originFid |-> a.originFid,
          isInitializingMap |-> FALSE,
          events |-> a.events]
    ELSE [fiducials |-> a.fiducials,
          originFid |-> a.originFid,
          isInitializingMap |-> TRUE,
          events |-> a.events]

\* the second part of autoInit: the frameNum > 10 block, entered with the
\* result a of the first part
autoInitAnchor(a, frame, obs, dflt) ==
    IF frame > InitFrames
    THEN [fiducials |-> IF Len(obs) > 0 /\ At(obs, 0).fid = a.originFid
                        THEN Put(a.fiducials, a.originFid,
                                 [Get(a.fiducials, a.originFid, dflt)
                                     EXCEPT !.variance = Zero])
                        ELSE a.fiducials,
          originFid |-> a.originFid,
          isInitializingMap |-> FALSE,
          events |-> a.events]
    ELSE [fiducials |-> a.fiducials,
          originFid |-> a.originFid,
          isInitializingMap |-> TRUE,
          events |-> a.events]

\* Map::autoInit
autoInit(fids, origin, frame, obs, dflt) ==
    autoInitAnchor(autoInitOrigin(fids, origin, obs, dflt), frame, obs, dflt)

\* variant of candidateVariance without the floor on landmark1's variance
candidateVarianceUnfloored(o1, o2, var1) ==
    RAdd(RAdd(o1.objectError, o2.objectError), var1)

\* the candidate variance of updateMap for landmark2 seen from landmark1
candidateVariance(o1, o2, var1) ==
    RAdd(RAdd(o1.objectError, o2.objectError), RMax(var1, LinkVarianceFloor))

\* the branch of updateMap that inserts landmark2; st is [fiducials, mapFile, events]
updateMapInsert(st, o1, o2, T_mapFid2, variance) ==
    LET fids2 == Put(st.fiducials, o2.fid, Fiducial(o2.fid, T_mapFid2, variance))
    IN  [fiducials |-> fids2,
         mapFile   |-> saveMap(fids2),
         events    |-> st.events \o
             <<[kind |-> "insert", site |-> "updateMap",
                fid1 |-> o1.fid, fid2 |-> o2.fid,
                e1 |-> o1.objectError, e2 |-> o2.objectError,
                var1 |-> st.fiducials[o1.fid].variance, varB |-> variance,
                inserted |-> fids2[o2.fid],
                linked12 |-> o2.fid \in fids2[o1.fid].links,
                linked21 |-> o1.fid \in fids2[o2.fid].links],
               [kind |-> "save"]>>]

\* variant of updateMapLink without fiducials[o1.fid].links[o2.fid] = 1
updateMapLinkOneWay(fids, f, fid1, fid2) ==
    [x \in DOMAIN fids |->
        IF x = fid2 THEN [f EXCEPT !.links = f.links \cup {fid1}, !.numObs = f.numObs + 1]
        ELSE fids[x]]

\* the statements after f.update in the fuse branch: f.links[o1.fid] = 1,
\* f.numObs++ and fiducials[o1.fid].links[o2.fid] = 1; f is landmark2 as updated
updateMapLink(fids, f, fid1, fid2) ==
    [x \in DOMAIN fids |->
        IF x = fid2 THEN [f EXCEPT !.links = f.links \cup {fid1}, !.numObs = f.numObs + 1]
        ELSE IF x = fid1 THEN [fids[x] EXCEPT !.links = fids[x].links \cup {fid2}]
        ELSE fids[x]]

\* the record of a fuse by updateMap, fids2 being the collection after it
updateMapFused(st, o1, o2, variance, fids2) ==
    [fiducials |-> fids2,
     mapFile   |-> st.mapFile,
     events    |-> Append(st.events,
         [kind |-> "fuse", site |-> "updateMap",
          fid1 |-> o1.fid, fid2 |-> o2.fid, created |-> FALSE,
          e1 |-> o1.objectError, e2 |-> o2.objectError,
          var1 |-> st.fiducials[o1.fid].variance,
          varA |-> st.fiducials[o2.fid].variance, varB |-> variance,
          numObsBefore |-> st.fiducials[o2.fid].numObs,
          numObsAfter |-> fids2[o2.fid].numObs,
          linked12 |-> o2.fid \in fids2[o1.fid].links,
          linked21 |-> o1.fid \in fids2[o2.fid].links])]

\* the branch of updateMap that fuses landmark2
updateMapFuse(st, o1, o2, T_mapFid2, variance) ==
    updateMapFused(st, o1, o2, variance,
        updateMapLink(st.fiducials,
                      Fiducial_update(st.fiducials[o2.fid], T_mapFid2, variance),
                      o1.fid, o2.fid))

\* variant of updateMapPair without the test "source not in map": the entry
\* fiducials[o1.fid] of a landmark1 that is not in the map is default-constructed
\* (here with zeroed members)
updateMapPairSourceUnchecked(st, o1, o2) ==
    IF o1.fid = o2.fid THEN st
    ELSE LET st1 == IF Has(st.fiducials, o1.fid) THEN st
                    ELSE [st EXCEPT !.fiducials =
                             Put(@, o1.fid,
                                 [id |-> 0, pose |-> [z |-> Zero, rot |-> Zero],
                                  variance |-> Zero, numObs |-> 0, links |-> {}])]
         IN  IF Has(st1.fiducials, o2.fid) /\ REq(st1.fiducials[o2.fid].variance, Zero)
             THEN st1
             ELSE IF ~Has(st1.fiducials, o2.fid)
                  THEN updateMapInsert(st1, o1, o2,
                           Compose(st1.fiducials[o1.fid].pose,
                                   Compose(o1.T_fidCam, o2.T_camFid)),
                           candidateVariance(o1, o2, st1.fiducials[o1.fid].variance))
                  ELSE updateMapFuse(st1, o1, o2,
                           Compose(st1.fiducials[o1.fid].pose,
                                   Compose(o1.T_fidCam, o2.T_camFid)),
                           candidateVariance(o1, o2, st1.fiducials[o1.fid].variance))

\* the body of the inner loop of updateMap for the pair (o1, o2)
updateMapPair(st, o1, o2) ==
    IF o1.fid = o2.fid THEN st
    ELSE IF ~Has(st.fiducials, o1.fid) THEN st
    ELSE IF Has(st.fiducials, o2.fid) /\ REq(st.fiducials[o2.fid].variance, Zero) THEN st
    ELSE LET T_fid1Fid2 == Compose(o1.T_fidCam, o2.T_camFid)
             T_mapFid2  == Compose(st.fiducials[o1.fid].pose, T_fid1Fid2)
             variance   == candidateVariance(o1, o2, st.fiducials[o1.fid].variance)
         IN  IF ~Has(st.fiducials, o2.fid)
             THEN updateMapInsert(st, o1, o2, T_mapFid2, variance)
             ELSE updateMapFuse(st, o1, o2, T_mapFid2, variance)

\* the two nested loops of updateMap, k = i * obs.size() + j
RECURSIVE updateMapLoop(_, _, _)
updateMapLoop(st, obs, k) ==
    IF k >= Len(obs) * Len(obs) THEN st
    ELSE updateMapLoop(updateMapPair(st, At(obs, k \div Len(obs)), At(obs, k % Len(obs))),
                       obs, k + 1)

\* variant of the loops of updateMap that visits each pair once, j > i only
RECURSIVE updateMapLoopUpper(_, _, _)
updateMapLoopUpper(st, obs, k) ==
    IF k >= Len(obs) * Len(obs) THEN st
    ELSE IF k % Len(obs) <= k \div Len(obs) THEN updateMapLoopUpper(st, obs, k + 1)
    ELSE updateMapLoopUpper(
             updateMapPair(st, At(obs, k \div Len(obs)), At(obs, k % Len(obs))),
             obs, k + 1)

\* variant of updateMap with these loops
updateMapUpper(fids, file, obs) ==
    updateMapLoopUpper([fiducials |-> fids, mapFile |-> file, events |-> <<>>], obs, 0)

\* Map::updateMap
updateMap(fids, file, obs) ==
    updateMapLoop([fiducials |-> fids, mapFile |-> file, events |-> <<>>], obs, 0)

\* variant of the body of the loop of updatePose that looks the landmark up
\* with fiducials[o.fid], which default-constructs an entry for an unknown id
updatePoseStepIndexed(acc, o) ==
    IF Has(acc.fiducials, o.fid)
    THEN LET p == Compose(acc.fiducials[o.fid].pose, o.T_fidCam)
             v == RAdd(acc.fiducials[o.fid].variance, o.objectError)
         IN  IF REq(acc.variance, Zero)
             THEN [acc EXCEPT !.pose = p, !.variance = v,
                              !.events = Append(@, [kind |-> "poseInit", fid |-> o.fid, v |-> v])]
             ELSE [acc EXCEPT !.pose = updateTransform(acc.pose, acc.variance, p, v),
                              !.variance = updateVarianceAlexey(acc.variance, v),
                              !.events = Append(@, [kind |-> "poseFuse", fid |-> o.fid,
                                                    varA |-> acc.variance, varB |-> v, v |-> v])]
    ELSE [acc EXCEPT !.fiducials =
              Put(@, o.fid, [id |-> 0, pose |-> [z |-> Zero, rot |-> Zero],
                             variance |-> Zero, numObs |-> 0, links |-> {}])]

\* the body of the loop of updatePose; acc is [fiducials, pose, variance,
\* events]: the landmark collection, the local pose and variance, and the
\* estimates made so far.  The collection is read through find (l.308) and
\* indexed only for an id that find has found.
updatePoseStep(acc, o) ==
    IF Has(acc.fiducials, o.fid)
    THEN LET p == Compose(acc.fiducials[o.fid].pose, o.T_fidCam)
             v == RAdd(acc.fiducials[o.fid].variance, o.objectError)
         IN  IF REq(acc.variance, Zero)
             THEN [acc EXCEPT !.pose = p, !.variance = v,
                              !.events = Append(@, [kind |-> "poseInit", fid |-> o.fid, v |-> v])]
             ELSE [acc EXCEPT !.pose = updateTransform(acc.pose, acc.variance, p, v),
                              !.variance = updateVarianceAlexey(acc.variance, v),
                              !.events = Append(@, [kind |-> "poseFuse", fid |-> o.fid,
                                                    varA |-> acc.variance, varB |-> v, v |-> v])]
    ELSE acc

RECURSIVE updatePoseLoop(_, _, _)
updatePoseLoop(acc, obs, i) ==
    IF i >= Len(obs) THEN acc
    ELSE updatePoseLoop(updatePoseStep(acc, At(obs, i)), obs, i + 1)

\* Map::updatePose: the landmark collection it leaves and the transforms sent
\* by broadcaster.sendTransform (none or one) with the variance logged for
\* it; uninit is the value of the uninitialised local pose
updatePoseSend(acc) ==
    [fiducials |-> acc.fiducials,
     sent |-> <<[pose |-> acc.pose, variance |-> acc.variance]>>,
     events |-> acc.events]

updatePose(fids, obs, uninit) ==
    IF Len(obs) = 0 THEN [fiducials |-> fids, sent |-> <<>>, events |-> <<>>]
    ELSE updatePoseSend(
             updatePoseLoop([fiducials |-> fids, pose |-> uninit, variance |-> Zero,
                             events |-> <<>>],
                            obs, 0))

----------------------------------------------------------------------------
(* Bounds and input sets.                                                  *)

\* frames processed in a run
MaxFrame == 12

\* leading frames in which the camera sees nothing
QuietFrames == 9

\* observations in one frame
MaxObs == 2

\* cap on the numObs counter of every landmark
MaxNumObs == 4

Ids == {0, 1, 2}

\* detected rotations about Z
Quats == {Zero}

\* what the detector reports for a marker: the translation along Z (metres)
\* and objectError
Sightings ==
    {[tvec |-> R(1), oerr |-> <<1, 1>>], [tvec |-> R(2), oerr |-> Zero]}

Observations ==
    {Observation(fid, q, s.tvec, Zero, s.oerr) : fid \in Ids, q \in Quats, s \in Sightings}

ObsSeqs == UNION {[1..n -> Observations] : n \in 0..MaxObs}

\* values an uninitialised double, int and tf2::Transform are sampled from
UninitDoubles == {Zero, <<2, 1>>, NaN}

UninitInts == {0, 2}

UninitPoses == {[z |-> d, rot |-> Zero] : d \in {Zero, NaN}}

\* Fiducial(): the members id, numObs, variance and pose are left uninitialised,
\* links is an empty std::map
DefaultFiducials ==
    {[id |-> i, pose |-> p, variance |-> v, numObs |-> n, links |-> {}] :
        i \in UninitInts, p \in UninitPoses, v \in UninitDoubles, n \in UninitInts}

\* the default-constructed values autoInit can read: fiducials[originFid] makes
\* one when obs[0] has the id originFid and the map, not empty, has no such key
DefaultsRead(fids, origin, obs) ==
    IF DOMAIN fids # {} /\ Len(obs) > 0 /\ At(obs, 0).fid = origin /\ ~Has(fids, origin)
    THEN DefaultFiducials
    ELSE {CHOOSE d \in DefaultFiducials : TRUE}

\* the values of the uninitialised local pose updatePose can send: those of a
\* frame in which no observation starts the accumulator
UninitPosesRead(fids, obs) ==
    IF \A i \in 1..Len(obs) : ~Has(fids, obs[i].fid)
    THEN UninitPoses
    ELSE {CHOOSE u \in UninitPoses : TRUE}

\* map files found at start-up: none, or one written by saveMap in an earlier run
AnchoredPair ==
    (0 :> [id |-> 0, pose |-> [z |-> R(1), rot |-> <<1, 2>>], variance |-> Zero,
           numObs |-> 2, links |-> {1}]) @@
    (1 :> [id |-> 1, pose |-> [z |-> R(2), rot |-> <<1, 2>>], variance |-> <<1, 1>>,
           numObs |-> 2, links |-> {0}])

FloatingPair ==
    (1 :> [id |-> 1, pose |-> [z |-> R(1), rot |-> <<1, 2>>], variance |-> <<1, 1>>,
           numObs |-> 0, links |-> {2}]) @@
    (2 :> [id |-> 2, pose |-> [z |-> R(2), rot |-> <<1, 2>>], variance |-> <<2, 1>>,
           numObs |-> 2, links |-> {1}])

InitFiles == {NoFile, saveMap(AnchoredPair), saveMap(FloatingPair)}

----------------------------------------------------------------------------
(* The state machine: one Map instance, one action per call of Map::update. *)

\* Map::Map.  pc is "idle" between frames, "frame" when Map::update has been
\* called with obsIn, "done" when it has returned.  hist.loaded: the map was
\* not empty after loadMap; hist.originId: the id of the landmark autoInit
\* inserted (-1: none yet); hist.switchFrame: the frame in which autoInit
\* cleared isInitializingMap (0: none yet).
Init ==
    /\ \E file \in InitFiles :
          /\ mapFile = file
          /\ fiducials = loadMap(NoFiducials, file)
    /\ frameNum = 0
    /\ isInitializingMap = FALSE
    /\ originFid = -1
    /\ obsIn = <<>>
    /\ pc = "idle"
    /\ events = <<>>
    /\ broadcast = <<>>
    /\ hist = [loaded |-> DOMAIN fiducials # {}, originId |-> -1, switchFrame |-> 0]
    /\ reloaded = NoFiducials

\* the sensor frontend calls Map::update with the observations of a frame
Observe(obs) ==
    /\ pc = "idle"
    /\ frameNum < MaxFrame
    /\ frameNum >= QuietFrames \/ Len(obs) = 0
    /\ obsIn' = obs
    /\ pc' = "frame"
    /\ UNCHANGED <<frameNum, isInitializingMap, originFid, fiducials, mapFile,
                   events, broadcast, hist, reloaded>>

\* variant of enterInitializing without the test fiducials.size() == 0
enterInitializingAnyMap(obs, fids, initializing) ==
    IF Len(obs) > 0 THEN TRUE ELSE initializing

\* the value of isInitializingMap after the first test of Map::update
enterInitializing(obs, fids, initializing) ==
    IF Len(obs) > 0 /\ Cardinality(DOMAIN fids) = 0 THEN TRUE ELSE initializing

\* the new state of a frame in which autoInit returned r
updateInitializing(r) ==
    /\ fiducials' = r.fiducials
    /\ originFid' = r.originFid
    /\ isInitializingMap' = r.isInitializingMap
    /\ events' = <<[kind |-> "autoInit"]>> \o r.events
    /\ broadcast' = <<>>
    /\ mapFile' = mapFile

\* the new state of a frame in which updateMap returned m and updatePose p;
\* the updatePose event holds the collection updatePose was called with
updateTracked(m, p) ==
    /\ fiducials' = p.fiducials
    /\ mapFile' = m.mapFile
    /\ events' = <<[kind |-> "updateMap"]>> \o m.events \o
                 <<[kind |-> "updatePose", fiducials |-> m.fiducials]>> \o p.events
    /\ broadcast' = p.sent
    /\ isInitializingMap' = isInitializingMap
    /\ originFid' = originFid

\* updatePose after updateMap returned m
updateTracking(m, obs) ==
    \E uninit \in UninitPosesRead(m.fiducials, obs) :
        updateTracked(m, updatePose(m.fiducials, obs, uninit))

\* Map::update
Update ==
    /\ pc = "frame"
    /\ frameNum' = frameNum + 1
    /\ IF enterInitializing(obsIn, fiducials, isInitializingMap)
       THEN \E dflt \in DefaultsRead(fiducials, originFid, obsIn) :
                updateInitializing(autoInit(fiducials, originFid, frameNum', obsIn, dflt))
       ELSE updateTracking(updateMap(fiducials, mapFile, obsIn), obsIn)
    /\ \A k \in DOMAIN fiducials' : fiducials'[k].numObs <= MaxNumObs
    /\ hist' = [hist EXCEPT
                  !.originId = IF Len(events') > 1 /\ events'[2].kind = "init"
                               THEN events'[2].fid ELSE @,
                  !.switchFrame = IF events'[1].kind = "autoInit" /\ ~isInitializingMap'
                                  THEN frameNum' ELSE @]
    /\ pc' = "done"
    /\ UNCHANGED <<obsIn, reloaded>>

\* the callback returns; the record of the frame is dropped
FrameDone ==
    /\ pc = "done"
    /\ pc' = "idle"
    /\ obsIn' = <<>>
    /\ events' = <<>>
    /\ broadcast' = <<>>
    /\ UNCHANGED <<frameNum, isInitializingMap, originFid, fiducials, mapFile,
                   hist, reloaded>>

Next ==
    \/ \E obs \in ObsSeqs : Observe(obs)
    \/ Update
    \/ FrameDone

Spec == Init /\ [][Next]_vars

----------------------------------------------------------------------------
(* Persistence on its own: a landmark collection is saved, and a second    *)
(* Map with an empty collection loads the file.                            *)

PersistIds == {0, 1}

\* the landmarks a collection of PersistCollections can hold under key k
PersistLandmarks(k, keys) ==
    {[id |-> k, pose |-> [z |-> z, rot |-> <<1, 2>>], variance |-> v,
      numObs |-> n, links |-> l] :
        z \in {R(1), <<1, 3>>}, v \in {Zero, <<1, 1>>, <<2, 3>>}, n \in {0, 3},
        l \in {{}, keys \ {k}}}

\* collections with symmetric links
PersistCollections ==
    UNION {{c \in [keys -> UNION {PersistLandmarks(k, keys) : k \in keys}] :
               /\ \A k \in keys : c[k] \in PersistLandmarks(k, keys)
               /\ \A a, b \in keys : (a \in c[b].links) <=> (b \in c[a].links)} :
           keys \in SUBSET PersistIds}

InitPersist ==
    /\ fiducials \in PersistCollections
    /\ mapFile = NoFile
    /\ reloaded = NoFiducials
    /\ pc = "built"
    /\ frameNum = 0
    /\ isInitializingMap = FALSE
    /\ originFid = -1
    /\ obsIn = <<>>
    /\ events = <<>>
    /\ broadcast = <<>>
    /\ hist = [loaded |-> FALSE, originId |-> -1, switchFrame |-> 0]

PersistSave ==
    /\ pc = "built"
    /\ mapFile' = saveMap(fiducials)
    /\ pc' = "saved"
    /\ UNCHANGED <<frameNum, isInitializingMap, originFid, fiducials, obsIn,
                   events, broadcast, hist, reloaded>>

PersistLoad ==
    /\ pc = "saved"
    /\ reloaded' = loadMap(NoFiducials, mapFile)
    /\ pc' = "loaded"
    /\ UNCHANGED <<frameNum, isInitializingMap, originFid, fiducials, mapFile,
                   obsIn, events, broadcast, hist>>

NextPersist == PersistSave \/ PersistLoad

SpecPersist == InitPersist /\ [][NextPersist]_vars

----------------------------------------------------------------------------
(* Map::loadMap on its own: a Map with an empty collection loads a file    *)
(* that holds any lines, well-formed or not.                               *)

\* lines in the file
MaxLines == 2

\* the lines: nfixed below NumFixedFields is a line on which sscanf stops before
\* the ninth field (the later fields of the record are then not read)
FileLines ==
    {[nfixed |-> n, id |-> i, tz |-> z, rz |-> R(90), var |-> One, numObs |-> 1,
      links |-> l] :
        n \in {5, NumFixedFields}, i \in PersistIds, z \in {R(1), R(2)},
        l \in {<<>>, <<0>>, <<1>>}}

LoadFiles ==
    {[exists |-> TRUE, lines |-> ls] :
        ls \in UNION {[1..n -> FileLines] : n \in 0..MaxLines}}

InitLoad ==
    /\ mapFile \in LoadFiles
    /\ fiducials = NoFiducials
    /\ reloaded = NoFiducials
    /\ pc = "saved"
    /\ frameNum = 0
    /\ isInitializingMap = FALSE
    /\ originFid = -1
    /\ obsIn = <<>>
    /\ events = <<>>
    /\ broadcast = <<>>
    /\ hist = [loaded |-> FALSE, originId |-> -1, switchFrame |-> 0]

NextLoad == PersistLoad

SpecLoad == InitLoad /\ [][NextLoad]_vars

----------------------------------------------------------------------------
(* Fiducial::update on its own: a landmark is fused with one estimate.     *)

\* the poses and variances (units of 1e-4) of the landmark and of the estimate
FusePoses == {[z |-> z, rot |-> r] : z \in {R(1), R(2), <<1, 2>>}, r \in {Zero, <<1, 2>>}}

FuseVariances == {Zero, <<1, 200>>, <<1, 100>>, <<1, 50>>, <<1, 3>>, <<1, 1>>, <<2, 1>>}

\* fiducials holds the landmark under key 0; events holds the estimate
InitFuse ==
    /\ \E P \in FusePoses, v \in FuseVariances : fiducials = (0 :> Fiducial(0, P, v))
    /\ \E Q \in FusePoses, w \in FuseVariances :
          events = <<[kind |-> "estimate", newPose |-> Q, newVariance |-> w]>>
    /\ pc = "estimate"
    /\ mapFile = NoFile
    /\ reloaded = NoFiducials
    /\ frameNum = 0
    /\ isInitializingMap = FALSE
    /\ originFid = -1
    /\ obsIn = <<>>
    /\ broadcast = <<>>
    /\ hist = [loaded |-> FALSE, originId |-> -1, switchFrame |-> 0]

\* fiducials[0].update(newPose, newVariance); events keeps the landmark as it was
FuseUpdate ==
    /\ pc = "estimate"
    /\ fiducials' = (0 :> Fiducial_update(fiducials[0], events[1].newPose,
                                          events[1].newVariance))
    /\ events' = <<[kind |-> "update", before |-> fiducials[0],
                    newPose |-> events[1].newPose,
                    newVariance |-> events[1].newVariance]>>
    /\ pc' = "fused"
    /\ UNCHANGED <<frameNum, isInitializingMap, originFid, mapFile, obsIn,
                   broadcast, hist, reloaded>>

NextFuse == FuseUpdate

SpecFuse == InitFuse /\ [][NextFuse]_vars

----------------------------------------------------------------------------
(* Properties.  They read the state after Map::update has returned         *)
(* (pc = "done"), where events holds what the frame did.                   *)

\* the first function Map::update called in the frame just processed
Called(fn) == pc = "done" /\ Len(events) > 0 /\ events[1].kind = fn

\* the frame just processed is the one in which autoInit inserted the origin
FirstBootstrapFrame == Called("autoInit") /\ Len(events) > 1 /\ events[2].kind = "init"

\* the positions of the insertions and fusions updateMap did in the frame
PairEvents ==
    {i \in 1..Len(events) :
        events[i].kind \in {"insert", "fuse"} /\ events[i].site = "updateMap"}

InsertEvents == {i \in PairEvents : events[i].kind = "insert"}

\* the position in obs of the observation closest to the camera: least squared
\* magnitude of the translation of T_camFid, the first one among equals
ClosestPosition(obs) ==
    CHOOSE i \in 1..Len(obs) :
        /\ \A j \in 1..Len(obs) :
              ~RLess(length2(obs[j].T_camFid), length2(obs[i].T_camFid))
        /\ \A j \in 1..(i - 1) :
              RLess(length2(obs[i].T_camFid), length2(obs[j].T_camFid))

\* C1: a landmark whose variance is 0 keeps its pose and its variance in every
\* step: no fusion ever modifies it.
C1_AnchorInvariance ==
    [][\A k \in DOMAIN fiducials :
          REq(fiducials[k].variance, Zero) =>
              /\ k \in DOMAIN fiducials'
              /\ fiducials'[k].pose = fiducials[k].pose
              /\ fiducials'[k].variance = fiducials[k].variance]_vars

\* C2: after a frame numbered above 10 was processed by autoInit, the mode is
\* TRACKING and the origin landmark (the one autoInit inserted, whatever its
\* id) has variance 0.
C2_BootstrapEndAnchorsOrigin ==
    (Called("autoInit") /\ frameNum > InitFrames) =>
        /\ ~isInitializingMap
        /\ Has(fiducials, hist.originId)
        /\ REq(fiducials[hist.originId].variance, Zero)

\* C3: links are symmetric: whenever A is in the link set of a landmark B of
\* the map, A is a landmark of the map and B is in the link set of A.
C3_LinkSymmetry ==
    \A b \in DOMAIN fiducials : \A a \in fiducials[b].links :
        Has(fiducials, a) /\ b \in fiducials[a].links

\* C3 witness: a run that started without a map file has returned from a
\* frame in which updateMap fused a pair and linked its two landmarks.
C3_Witness ==
    /\ Called("updateMap")
    /\ ~hist.loaded
    /\ \E i \in PairEvents : events[i].kind = "fuse" /\ events[i].linked12

\* C4: loading the file that saveMap wrote into an empty collection gives
\* back the saved collection: same ids, poses, variances, observation counts
\* and link sets, landmarks with an empty link set included.
C4_SaveLoadRoundTrip == pc = "loaded" => reloaded = fiducials

\* C5: on the first bootstrap frame the landmark inserted as origin is the
\* observation closest to the camera, the first one among equals.
C5_ClosestObservationIsOrigin ==
    FirstBootstrapFrame =>
        LET o == obsIn[ClosestPosition(obsIn)]
        IN  /\ DOMAIN fiducials = {o.fid}
            /\ fiducials[o.fid].pose = o.T_fidCam

\* C6: after the first bootstrap frame, when its number is at most 10, the
\* map holds exactly one landmark, the one of the selected observation, with
\* that observation's objectError as variance and an observation count of 0,
\* and the mode is still INITIALIZING.
C6_FirstBootstrapFrame ==
    (FirstBootstrapFrame /\ frameNum <= InitFrames) =>
        LET o == obsIn[events[2].idx + 1]
        IN  /\ DOMAIN fiducials = {o.fid}
            /\ fiducials[o.fid].id = o.fid
            /\ fiducials[o.fid].variance = o.objectError
            /\ fiducials[o.fid].numObs = 0
            /\ isInitializingMap

\* C6 witness: the first bootstrap frame, numbered at most 10, was processed
\* with two observations.
C6_Witness == FirstBootstrapFrame /\ frameNum <= InitFrames /\ Len(obsIn) = 2

C8_ProcessedPairIsLinked ==
    \A i \in PairEvents : events[i].linked12 /\ events[i].linked21

\* C9: a tracking frame in which no observed id is in the map sends no
\* camera pose.
C9_NoPoseWithoutMappedObservation ==
    (Called("updateMap") /\ \A i \in 1..Len(obsIn) : ~Has(fiducials, obsIn[i].fid)) =>
        broadcast = <<>>

\* C10: once autoInit has cleared isInitializingMap the mode stays TRACKING and
\* autoInit is not called again; a map loaded non-empty never is in
\* INITIALIZING mode and never has autoInit called.
C10_NoReturnToInitializing ==
    /\ hist.switchFrame > 0 => ~isInitializingMap
    /\ (hist.switchFrame > 0 /\ frameNum > hist.switchFrame) => ~Called("autoInit")
    /\ hist.loaded => (~isInitializingMap /\ ~Called("autoInit"))

\* C10 witness: a frame with observations was processed after the frame in
\* which autoInit cleared isInitializingMap.
C10_Witness ==
    /\ pc = "done"
    /\ hist.switchFrame > 0
    /\ frameNum > hist.switchFrame
    /\ Len(obsIn) > 0

\* the landmark and the estimate of a finished Fiducial::update are the same
\* (P, v), with v finite and positive
FusedEqual ==
    /\ pc = "fused"
    /\ events[1].before.pose = events[1].newPose
    /\ events[1].before.variance = events[1].newVariance
    /\ IsFinite(events[1].newVariance)
    /\ RLess(Zero, events[1].newVariance)

\* C11, as stated: fusing a landmark (P, v) with the estimate (P, v) leaves the
\* pose P and makes the variance v/2, for every v > 0.
C11_EqualVarianceLawAsStated ==
    FusedEqual =>
        /\ fiducials[0].pose = events[1].newPose
        /\ fiducials[0].variance = RDiv(events[1].newVariance, R(2))

\* C11, amended: fusing a landmark (P, v) with the estimate (P, v) leaves the
\* pose P and makes the variance v/2 when v >= 2e-6, and 1e-6 when
\* 0 < v < 2e-6.  (2e-6 is 1/50 and 1e-6 is 1/100 of the variance unit.)
C11_EqualVarianceLaw ==
    FusedEqual =>
        /\ fiducials[0].pose = events[1].newPose
        /\ fiducials[0].variance =
              IF RLess(events[1].newVariance, <<1, 50>>)
              THEN <<1, 100>>
              ELSE RDiv(events[1].newVariance, R(2))

\* C11 witness: an equal-variance fusion with v above 2e-6 has been done.
C11_Witness == FusedEqual /\ RLess(<<1, 50>>, events[1].newVariance)

\* C12: in a run that started with an empty map, a landmark that has variance
\* 0 is the origin autoInit inserted (so at most one landmark has variance 0),
\* and no landmark that updateMap inserted or fused has variance 0.
C12_OnlyOriginHasVarianceZero ==
    ~hist.loaded =>
        /\ \A k \in DOMAIN fiducials :
              REq(fiducials[k].variance, Zero) => k = hist.originId
        /\ \A i \in PairEvents : ~REq(fiducials[events[i].fid2].variance, Zero)

\* the positions in obsIn of the observations of the origin landmark
OriginSeen == {i \in 1..Len(obsIn) : obsIn[i].fid = hist.originId}

\* the landmark f2 is the landmark f fused once with the observation o; the
\* variance is compared in the frames that do not end the bootstrap
FusedWith(f2, f, o, frame) ==
    /\ f2.numObs = f.numObs + 1
    /\ f2.pose = Fiducial_update(f, o.T_fidCam, o.objectError).pose
    /\ frame <= InitFrames =>
          f2.variance = Fiducial_update(f, o.T_fidCam, o.objectError).variance

\* C13: in a bootstrap frame entered with the origin in the map, the origin is
\* fused exactly once with an observation of its id when the frame has one, at
\* whatever position, and is left as it was when the frame has none.
C13_OriginFusedWhenSeen ==
    [][(pc = "frame" /\ isInitializingMap /\ Has(fiducials, hist.originId)) =>
          IF OriginSeen # {}
          THEN \E i \in OriginSeen :
                  FusedWith(fiducials'[hist.originId], fiducials[hist.originId],
                            obsIn[i], frameNum')
          ELSE /\ fiducials'[hist.originId].pose = fiducials[hist.originId].pose
               /\ fiducials'[hist.originId].numObs = fiducials[hist.originId].numObs
               /\ frameNum' <= InitFrames =>
                     fiducials'[hist.originId].variance =
                         fiducials[hist.originId].variance]_vars

\* C14: while the mode is INITIALIZING, and at the end of every frame that
\* autoInit processed, the map holds exactly one landmark, the origin.
C14_BootstrapKeepsOneLandmark ==
    (isInitializingMap \/ Called("autoInit")) => DOMAIN fiducials = {hist.originId}

\* the positions of the fusions updateMap did in the frame
FuseEvents == {i \in PairEvents : events[i].kind = "fuse"}

\* the numObs of a landmark never decreases, and no landmark leaves the map
NumObsNeverDecreases ==
    [][\A k \in DOMAIN fiducials :
          k \in DOMAIN fiducials' /\ fiducials'[k].numObs >= fiducials[k].numObs]_vars

\* C15: each fusion by updateMap adds exactly 1 to the numObs of the landmark
\* it fuses into, and the numObs of a landmark never decreases.
C15_FuseCountsOnce ==
    /\ [](\A i \in FuseEvents : events[i].numObsAfter = events[i].numObsBefore + 1)
    /\ NumObsNeverDecreases

\* the positions of the fusions of the frame: Fiducial::update on a landmark
\* that was in the map (by autoInit or by updateMap), and the fusions into
\* the accumulator of updatePose
FusionCalls ==
    {i \in 1..Len(events) :
        \/ events[i].kind = "fuse" /\ ~events[i].created
        \/ events[i].kind = "poseFuse"}

\* C16: every fusion is called with two variances whose sum is strictly
\* positive.
C16_FusionVariancesNotBothZero ==
    \A i \in FusionCalls : RLess(Zero, RAdd(events[i].varA, events[i].varB))

\* the positions of the events of the frame that put a new landmark in the map:
\* the origin by autoInit, a co-observed landmark by updateMap
InsertionEvents == {i \in 1..Len(events) : events[i].kind \in {"init", "insert"}}

SaveEvents == {i \in 1..Len(events) : events[i].kind = "save"}

\* the ids of the landmarks the map file holds
SavedIds == {mapFile.lines[j].id : j \in 1..Len(mapFile.lines)}

\* C17: every insertion of a landmark is followed at once by a save, a frame
\* without insertion saves nothing, and after a frame that inserted a landmark
\* the file holds every landmark of the map.
C17_SaveOnEveryInsertion ==
    pc = "done" =>
        /\ \A i \in InsertionEvents : (i + 1) \in SaveEvents
        /\ InsertionEvents = {} => SaveEvents = {}
        /\ InsertionEvents # {} => (mapFile.exists /\ SavedIds = DOMAIN fiducials)

\* the candidate variances of updatePose in observation order: for each
\* observation of a mapped landmark, the landmark's variance plus objectError
RECURSIVE CandidateVariances(_, _)
CandidateVariances(obs, i) ==
    IF i > Len(obs) THEN <<>>
    ELSE IF Has(fiducials, obs[i].fid)
         THEN <<RAdd(fiducials[obs[i].fid].variance, obs[i].objectError)>> \o
              CandidateVariances(obs, i + 1)
         ELSE CandidateVariances(obs, i + 1)

\* the left fold of max(1/(1/acc + 1/v), 1e-6) over vs[i..], started with acc
RECURSIVE HarmonicFold(_, _, _)
HarmonicFold(acc, vs, i) ==
    IF i > Len(vs) THEN acc
    ELSE HarmonicFold(
             RMax(RDiv(One, RAdd(RDiv(One, acc), RDiv(One, vs[i]))), <<1, 100>>),
             vs, i + 1)

\* C18: the variance sent with the camera pose is the left fold of
\* max(1/(1/acc + 1/v), 1e-6) over the candidate variances, started with the
\* first candidate, whatever the first candidate's variance is.
C18_PoseVarianceIsLeftFold ==
    (Called("updateMap") /\ CandidateVariances(obsIn, 1) # <<>>) =>
        /\ broadcast # <<>>
        /\ broadcast[1].variance =
              HarmonicFold(CandidateVariances(obsIn, 1)[1],
                           CandidateVariances(obsIn, 1), 2)

\* C19: a tracking frame in which no observed id is in the map leaves the
\* landmark collection and the map file as they were and saves nothing.
C19_UnmappedFrameChangesNothing ==
    [][(/\ pc = "frame"
        /\ events'[1].kind = "updateMap"
        /\ \A i \in 1..Len(obsIn) : ~Has(fiducials, obsIn[i].fid)) =>
          /\ fiducials' = fiducials
          /\ mapFile' = mapFile
          /\ \A i \in 1..Len(events') : events'[i].kind # "save"]_vars

\* C19 witness: a tracking frame has been processed that observed two
\* different ids, neither of them in the map.
C19_Witness ==
    /\ Called("updateMap")
    /\ Len(obsIn) = 2
    /\ obsIn[1].fid # obsIn[2].fid
    /\ \A i \in 1..Len(obsIn) : ~Has(fiducials, obsIn[i].fid)

\* the positions of the lines of the map file whose nine fixed fields parse
WellFormedLines ==
    {j \in 1..Len(mapFile.lines) : mapFile.lines[j].nfixed = NumFixedFields}

\* the last well-formed line of the map file that has the id k
LastLineOf(k) ==
    CHOOSE j \in WellFormedLines :
        /\ mapFile.lines[j].id = k
        /\ \A j2 \in WellFormedLines : mapFile.lines[j2].id = k => j2 <= j

\* C20: loadMap loads exactly the lines whose nine fixed fields parse, with
\* an empty link list or not: the loaded collection holds the ids of these
\* lines, each with the values of its last such line, whatever other lines
\* the file holds.
C20_LoadsEveryWellFormedLine ==
    pc = "loaded" =>
        /\ DOMAIN reloaded = {mapFile.lines[j].id : j \in WellFormedLines}
        /\ \A k \in DOMAIN reloaded :
              /\ reloaded[k].pose.z = mapFile.lines[LastLineOf(k)].tz
              /\ reloaded[k].variance = mapFile.lines[LastLineOf(k)].var
              /\ reloaded[k].numObs = mapFile.lines[LastLineOf(k)].numObs
              /\ reloaded[k].links =
                    {mapFile.lines[LastLineOf(k)].links[i] :
                        i \in 1..Len(mapFile.lines[LastLineOf(k)].links)}

\* the ids observed in the frame
ObservedIds == {obsIn[i].fid : i \in 1..Len(obsIn)}

\* C21: a tracking frame that observes at least one landmark of the map ends
\* with the map holding the ids it held plus every observed id, whatever the
\* order of the observations.
C21_ObservedIdsAreMapped ==
    [][(/\ pc = "frame"
        /\ events'[1].kind = "updateMap"
        /\ \E k \in ObservedIds : Has(fiducials, k)) =>
          DOMAIN fiducials' = DOMAIN fiducials \cup ObservedIds]_vars

\* C21 witness: a tracking frame has been processed whose first observation
\* was of a landmark not in the map and whose second observation was of a
\* landmark in the map, and the first one's landmark was inserted.
C21_Witness ==
    /\ Called("updateMap")
    /\ Len(obsIn) = 2
    /\ \E i \in InsertEvents :
          events[i].fid2 = obsIn[1].fid /\ events[i].fid1 = obsIn[2].fid

\* the positions of the calls of updatePose in the events of the frame
PoseCalls == {i \in 1..Len(events) : events[i].kind = "updatePose"}

\* C22: after a tracking frame the landmark collection (ids, poses,
\* variances, observation counts, links) is the one updatePose was called
\* with, and it has no entry that updatePose created for an observed id.
C22_UpdatePoseKeepsLandmarks ==
    Called("updateMap") =>
        \A i \in PoseCalls :
            /\ fiducials = events[i].fiducials
            /\ \A k \in ObservedIds :
                  ~Has(events[i].fiducials, k) => ~Has(fiducials, k)

\* C22 witness: updatePose has run on an observation of a landmark that is
\* not in the map it was called with, and has sent a pose.
C22_Witness ==
    /\ Called("updateMap")
    /\ Len(broadcast) = 1
    /\ \E i \in PoseCalls :
          /\ DOMAIN events[i].fiducials # {}
          /\ \E k \in ObservedIds : ~Has(events[i].fiducials, k)

====
